---- MODULE Spec2Model ----
(***************************************************************************)
(* A model of the notebook deltax_uavsar_earthdata_cloud.ipynb: the CMR    *)
(* granule search (search_cmr), the temporary S3 credential fetch          *)
(* (get_s3credentials), the S3 filesystem session and the reads made       *)
(* through it, and the decode of the SLC raster (np.memmap, reshape,       *)
(* np.abs, np.angle).                                                      *)
(*                                                                         *)
(* The HTTP endpoints, the object store and the local working directory    *)
(* are the environment: every response and every file content is a         *)
(* nondeterministic choice from a small set.  A blocking HTTP call is      *)
(* three steps: the program issues the request, the environment answers,   *)
(* the program handles the answer.                                         *)
(***************************************************************************)
EXTENDS Integers, Sequences, FiniteSets, TLC

VARIABLES
    cell,          \* the notebook cell that runs next ("error": a cell raised,
                   \* "harness": a caller that calls get_s3credentials directly)
    exc,           \* the exception raised last, "" when none
    requests,      \* every HTTP request issued so far, in order
    now,           \* the environment's clock when the notebook runs
    \* search_cmr
    pc_search,     \* position inside search_cmr
    lookup,        \* the response of the DOI lookup
    r,             \* the page response search_cmr holds
    concept_id,    \* search_cmr local
    page_num,      \* search_cmr local
    s3_arr,        \* search_cmr local
    answered,      \* the granule page responses received so far, in order
    granule_arr,   \* the list search_cmr returned
    granule_sub,   \* the locators selected by file name prefix
    \* get_s3credentials and the S3 session
    pc_creds,      \* position inside get_s3credentials
    calls,         \* number of calls of get_s3credentials so far
    rc,            \* the response get_s3credentials holds
    s3credentials, \* the bundle get_s3credentials returned last
    fs_s3,         \* the S3FileSystem session
    reads,         \* every read of granule bytes so far, in order
    \* the SLC cell
    localfile,     \* the file of seg2's base name in the working directory
    rows_s2,
    cols_s2,
    pc_slc,        \* position inside the SLC cell
    ds,            \* the flat memory-mapped array
    slc_seg2,      \* the reshaped grid, a sequence of rows
    backscatter_seg2,
    phase_seg_2

nbVars     == <<cell, exc, requests, now>>
searchVars == <<pc_search, r, lookup, concept_id, page_num, s3_arr, answered,
                granule_arr>>
credVars   == <<pc_creds, calls, rc, s3credentials>>
slcVars    == <<localfile, rows_s2, cols_s2, pc_slc, ds, slc_seg2,
                backscatter_seg2, phase_seg_2>>

vars == <<nbVars, searchVars, credVars, slcVars, granule_sub, fs_s3, reads>>

(***************************************************************************)
(* Bounds of the model.                                                    *)
(***************************************************************************)
\* The environment answers at most MaxPages non-empty pages in one search.
MaxPages == 2

(***************************************************************************)
(* Strings the code inspects character by character are sequences of       *)
(* one-character strings.                                                  *)
(***************************************************************************)
startswith(s, prefix) ==
    /\ Len(s) >= Len(prefix)
    /\ SubSeq(s, 1, Len(prefix)) = prefix

\* 's3://'
S3Scheme == <<"s", "3", ":", "/", "/">>

\* Locators of the catalogue: bucket "b", host "h", file names wa, wb, wc, xa.
s3_wa    == <<"s", "3", ":", "/", "/", "b", "/", "w", "a">>
s3_wb    == <<"s", "3", ":", "/", "/", "b", "/", "w", "b">>
s3_wc    == <<"s", "3", ":", "/", "/", "b", "/", "w", "c">>
s3_xa    == <<"s", "3", ":", "/", "/", "b", "/", "x", "a">>
https_wa == <<"h", "t", "t", "p", "s", ":", "/", "/", "h", "/", "w", "a">>
ftp_wa   == <<"f", "t", "p", ":", "/", "/", "h", "/", "w", "a">>
\* An HTTPS link whose path contains, but does not start with, 's3://'.
https_s3 == <<"h", "t", "t", "p", "s", ":", "/", "/", "s", "3", ":", "/", "/", "w", "a">>
\* A link cut short of the full scheme prefix.
s3_cut   == <<"s", "3", ":", "/">>

\* A granule record is the sequence of the hrefs of its 'links'.
g_three == <<s3_wa, https_wa, ftp_wa>>
g_two   == <<s3_wb, s3_wc>>
g_none  == <<https_s3, s3_cut>>
g_other == <<https_wa, s3_xa>>

\* The 'feed.entry' lists a granule page can carry.
NonEmptyPages ==
    { <<g_three>>, <<g_three, g_two>>, <<g_two, g_three>>, <<g_none>>,
      <<g_other, g_two>> }

PageEntries == NonEmptyPages \cup { <<>> }

\* HTTP status codes the endpoints answer with.
Statuses == {200, 404}

\* A response: the status line, whether the body is JSON holding
\* feed.entry, and that entry list.
PageResponses ==
    [status : Statuses, ok : {TRUE}, entry : PageEntries]
        \cup [status : Statuses, ok : {FALSE}, entry : {<<>>}]

\* The collection ids the DOI lookup can list in feed.entry[*].id.
DoiEntries == { <<>>, <<"C1">>, <<"C2", "C1">> }

DoiResponses ==
    [status : Statuses, ok : {TRUE}, entry : DoiEntries]
        \cup [status : Statuses, ok : {FALSE}, entry : {<<>>}]

NoResponse == [status |-> 0, ok |-> FALSE, entry |-> <<>>]

\* doi = '10.3334/ORNLDAAC/1984'
doi == "10.3334/ORNLDAAC/1984"

\* page_size = 2000 # CMR page size limit
page_size == 2000

Request(method, url, arg, psize, pnum) ==
    [method |-> method, url |-> url, arg |-> arg,
     page_size |-> psize, page_num |-> pnum]

(***************************************************************************)
(* requests.Response.raise_for_status: raises HTTPError for 4xx and 5xx.   *)
(***************************************************************************)
raise_for_status_never(status) == FALSE

raise_for_status(status) == status >= 400 /\ status < 600

(***************************************************************************)
(* search_cmr                                                              *)
(***************************************************************************)
\* if links['href'].startswith('s3://')
RetainLink_contains(href) ==
    \E i \in 1..Len(href) :
        /\ i + Len(S3Scheme) - 1 <= Len(href)
        /\ SubSeq(href, i, i + Len(S3Scheme) - 1) = S3Scheme

RetainLink(href) == startswith(href, S3Scheme)

\* for links in g['links']: if ...: s3_arr.append(links['href'])
RECURSIVE GranuleLinks(_)
GranuleLinks(g) ==
    IF g = <<>> THEN <<>>
    ELSE (IF RetainLink(Head(g)) THEN <<Head(g)>> ELSE <<>>)
             \o GranuleLinks(Tail(g))

\* for g in granules: ...
RECURSIVE PageLinks(_)
PageLinks(granules) ==
    IF granules = <<>> THEN <<>>
    ELSE GranuleLinks(Head(granules)) \o PageLinks(Tail(granules))

\* page_num += 1
NextPageNum_skip(p) == p + 2

NextPageNum(p) == p + 1

\* if granules: (a list is true when it is not empty)
Truthy_never(granules) == FALSE

Truthy(granules) == granules # <<>>

\* An uncaught exception: the notebook run stops at the cell; a direct caller
\* of the function sees the exception and goes on.
Raise(name) ==
    /\ exc' = name
    /\ cell' = IF cell = "harness" THEN cell ELSE "error"

\* requests.get(doisearch): the lookup request goes out.
search_get_doi ==
    /\ cell = "search"
    /\ pc_search = "idle"
    /\ requests' = Append(requests, Request("GET", "collections.json", doi, 0, 0))
    /\ pc_search' = "doi_wait"
    /\ UNCHANGED <<cell, exc, now, r, lookup, concept_id, page_num, s3_arr,
                   answered, granule_arr>>
    /\ UNCHANGED <<credVars, slcVars, granule_sub, fs_s3, reads>>

\* The catalogue answers the lookup.
doi_respond ==
    /\ pc_search = "doi_wait"
    /\ \E resp \in DoiResponses : lookup' = resp
    /\ pc_search' = "doi_got"
    /\ UNCHANGED <<r, concept_id, page_num, s3_arr, answered, granule_arr>>
    /\ UNCHANGED <<nbVars, credVars, slcVars, granule_sub, fs_s3, reads>>

\* concept_id = <response>.json()['feed']['entry'][0]['id'], with no status
\* check; then page_num = 1, s3_arr = [].
search_parse_doi ==
    /\ pc_search = "doi_got"
    /\ IF ~lookup.ok
       THEN /\ Raise("KeyError")
            /\ pc_search' = "raised"
            /\ UNCHANGED <<concept_id, page_num, s3_arr>>
       ELSE IF lookup.entry = <<>>
       THEN /\ Raise("IndexError")
            /\ pc_search' = "raised"
            /\ UNCHANGED <<concept_id, page_num, s3_arr>>
       ELSE /\ concept_id' = lookup.entry[1]
            /\ page_num' = 1
            /\ s3_arr' = <<>>
            /\ pc_search' = "loop"
            /\ UNCHANGED <<cell, exc>>
    /\ UNCHANGED <<requests, now, r, lookup, answered, granule_arr>>
    /\ UNCHANGED <<credVars, slcVars, granule_sub, fs_s3, reads>>

\* r = requests.post(granulesearch, data=cmr_param): the page request goes out.
search_post_page ==
    /\ pc_search = "loop"
    /\ requests' = Append(requests,
                      Request("POST", "granules.json", concept_id, page_size, page_num))
    /\ pc_search' = "page_wait"
    /\ UNCHANGED <<cell, exc, now, r, lookup, concept_id, page_num, s3_arr,
                   answered, granule_arr>>
    /\ UNCHANGED <<credVars, slcVars, granule_sub, fs_s3, reads>>

\* A response that makes the loop go round once more.
Continues(resp) == ~raise_for_status(resp.status) /\ resp.ok /\ resp.entry # <<>>

\* The catalogue answers the page request.  The catalogue is finite: past
\* MaxPages pages it has no further granules to list.
page_respond ==
    /\ pc_search = "page_wait"
    /\ \E resp \in PageResponses :
          /\ Continues(resp) => page_num <= MaxPages
          /\ r' = resp
          /\ answered' = Append(answered, resp)
    /\ pc_search' = "page_got"
    /\ UNCHANGED <<lookup, concept_id, page_num, s3_arr, granule_arr>>
    /\ UNCHANGED <<nbVars, credVars, slcVars, granule_sub, fs_s3, reads>>

\* r.raise_for_status(); granules = r.json()['feed']['entry']; the loop body;
\* return s3_arr after the break (granule_arr = search_cmr(doi)).
search_handle_page ==
    /\ pc_search = "page_got"
    /\ IF raise_for_status(r.status)
       THEN /\ Raise("HTTPError")
            /\ pc_search' = "raised"
            /\ UNCHANGED <<page_num, s3_arr, granule_arr>>
       ELSE IF ~r.ok
       THEN /\ Raise("KeyError")
            /\ pc_search' = "raised"
            /\ UNCHANGED <<page_num, s3_arr, granule_arr>>
       ELSE IF Truthy(r.entry)
       THEN /\ s3_arr' = s3_arr \o PageLinks(r.entry)
            /\ page_num' = NextPageNum(page_num)
            /\ pc_search' = "loop"
            /\ UNCHANGED <<cell, exc, granule_arr>>
       ELSE /\ pc_search' = "returned"
            /\ granule_arr' = s3_arr
            /\ cell' = "filter"
            /\ UNCHANGED <<exc, page_num, s3_arr>>
    /\ UNCHANGED <<requests, now, r, lookup, concept_id, answered>>
    /\ UNCHANGED <<credVars, slcVars, granule_sub, fs_s3, reads>>

(***************************************************************************)
(* The selection of the granule files by name.                             *)
(***************************************************************************)
\* g.split('/')[-1]
basename(s) ==
    LET slashes == { i \in 1..Len(s) : s[i] = "/" }
        last    == CHOOSE i \in slashes : \A k \in slashes : k <= i
    IN  IF slashes = {} THEN s ELSE SubSeq(s, last + 1, Len(s))

\* "wterre_34202_21028_017_210407_L090VV_02_BU", here the one-letter prefix
\* of the catalogue's file names wa, wb, wc.
GranulePrefix == <<"w">>

Selected(g) == startswith(basename(g), GranulePrefix)

\* for g in granule_arr: if ...: granule_sub.append(g)
notebook_filter ==
    /\ cell = "filter"
    /\ granule_sub' = SelectSeq(granule_arr, Selected)
    /\ cell' = "creds"
    /\ UNCHANGED <<exc, requests, now>>
    /\ UNCHANGED <<searchVars, credVars, slcVars, fs_s3, reads>>

(***************************************************************************)
(* get_s3credentials                                                       *)
(***************************************************************************)
\* The data providers a caller can name; the notebook names "ornldaac".
DAACs == {"ornldaac", "podaac"}

\* Clock readings and expiration times: a bundle is expired when its
\* expiration is before now.
Times == {2, 4}
Expirations == {1, 3}

Bundles ==
    [accessKeyId : {"A", "A2"}, secretAccessKey : {"B"}, sessionToken : {"C"},
     expiration : Expirations]

NoBundle ==
    [accessKeyId |-> "", secretAccessKey |-> "", sessionToken |-> "",
     expiration |-> 0]

CredResponses == [status : Statuses, bundle : Bundles]

NoCredResponse == [status |-> 0, bundle |-> NoBundle]

\* The bound on the calls a direct caller makes.
MaxCalls == 2

\* return r.json()
creds_json_cached(resp) ==
    IF s3credentials # NoBundle THEN s3credentials ELSE resp.bundle

creds_json(resp) == resp.bundle

\* r = requests.get(earthadata_s3): the request goes out.
creds_get ==
    /\ pc_creds \in {"idle", "returned", "raised"}
    /\ IF cell = "harness" THEN calls < MaxCalls
                           ELSE cell = "creds" /\ pc_creds = "idle"
    /\ \E daac \in (IF cell = "harness" THEN DAACs ELSE {"ornldaac"}) :
          requests' = Append(requests, Request("GET", "s3credentials", daac, 0, 0))
    /\ calls' = calls + 1
    /\ pc_creds' = "wait"
    /\ UNCHANGED <<cell, exc, now, rc, s3credentials>>
    /\ UNCHANGED <<searchVars, slcVars, granule_sub, fs_s3, reads>>

\* The credentials endpoint answers.
creds_respond ==
    /\ pc_creds = "wait"
    /\ \E resp \in CredResponses : rc' = resp
    /\ pc_creds' = "got"
    /\ UNCHANGED <<calls, s3credentials>>
    /\ UNCHANGED <<nbVars, searchVars, slcVars, granule_sub, fs_s3, reads>>

\* r.raise_for_status(); return r.json()
\* (s3credentials = get_s3credentials("ornldaac"); the expiration is printed)
creds_return ==
    /\ pc_creds = "got"
    /\ IF raise_for_status(rc.status)
       THEN /\ Raise("HTTPError")
            /\ pc_creds' = "raised"
            /\ UNCHANGED s3credentials
       ELSE /\ s3credentials' = creds_json(rc)
            /\ pc_creds' = "returned"
            /\ cell' = IF cell = "creds" THEN "fs" ELSE cell
            /\ UNCHANGED exc
    /\ UNCHANGED <<requests, now, calls, rc>>
    /\ UNCHANGED <<searchVars, slcVars, granule_sub, fs_s3, reads>>

(***************************************************************************)
(* The S3 session and the annotation read.                                 *)
(***************************************************************************)
NoSession == [open |-> FALSE, key |-> "", secret |-> "", token |-> ""]

\* fs_s3 = s3fs.S3FileSystem(anon=False, key=..., secret=..., token=...)
notebook_fs ==
    /\ cell = "fs"
    /\ fs_s3' = [open   |-> TRUE,
                 key    |-> s3credentials.accessKeyId,
                 secret |-> s3credentials.secretAccessKey,
                 token  |-> s3credentials.sessionToken]
    /\ cell' = "ann"
    /\ UNCHANGED <<exc, requests, now>>
    /\ UNCHANGED <<searchVars, credVars, slcVars, granule_sub, reads>>

Read(path, mode, via) == [path |-> path, mode |-> mode, via |-> via]

\* ann_file = granule_sub[2]; with fs_s3.open(ann_file, mode='r') as fh:
\* print(fh.read()).  The object store refuses an expired token and may
\* refuse or fail any other read.
notebook_ann ==
    /\ cell = "ann"
    /\ IF Len(granule_sub) < 3
       THEN /\ Raise("IndexError")
            /\ UNCHANGED reads
       ELSE \E granted \in (IF s3credentials.expiration > now
                            THEN BOOLEAN ELSE {FALSE}) :
              IF granted
              THEN /\ reads' = Append(reads, Read(granule_sub[3], "text", "fs_s3"))
                   /\ cell' = "slc"
                   /\ UNCHANGED exc
              ELSE /\ Raise("OSError")
                   /\ UNCHANGED reads
    /\ UNCHANGED <<requests, now>>
    /\ UNCHANGED <<searchVars, credVars, slcVars, granule_sub, fs_s3>>

(***************************************************************************)
(* The SLC cell: single-precision floats, complex64 samples, the file.     *)
(*                                                                         *)
(* A float is finite (sign s, magnitude v), an infinity (sign s) or a NaN; *)
(* zero is signed, as in IEEE 754.  A complex64 sample is a pair (re, im). *)
(***************************************************************************)
Fin(s, v) == [k |-> "fin", s |-> s, v |-> v]
PInf == [k |-> "inf", s |-> 1, v |-> 0]
NInf == [k |-> "inf", s |-> -1, v |-> 0]
NaN  == [k |-> "nan", s |-> 1, v |-> 0]

\* The floats a sample's parts are drawn from.
FloatSeq ==
    << Fin(1, 0), Fin(-1, 0), Fin(1, 1), Fin(-1, 1), Fin(1, 2), Fin(-1, 2),
       PInf, NInf, NaN >>

NFloats  == Len(FloatSeq)
NSamples == NFloats * NFloats

\* Sample number i, 0 <= i < NSamples, of the enumeration of all samples.
SampleAt(i) ==
    [re |-> FloatSeq[(i \div NFloats) + 1], im |-> FloatSeq[(i % NFloats) + 1]]

\* Bounds on the grid dimensions (the notebook's are 55408 by 9900).
MaxRows == 2
MaxCols == 3

\* The trailing bytes a file can hold after its last whole sample.
Tails == {0, 1, 7}

\* A file of the working directory: whether it exists, its number n of whole
\* 8-byte samples, its trailing bytes, and its content: sample k is number
\* off + k*stride of the enumeration.
Files ==
    [exists : {TRUE}, n : 0..(MaxRows * MaxCols + 2), tail : Tails,
     off : 0..(NSamples - 1), stride : {0, 1}]

NoFile == [exists |-> FALSE, n |-> 0, tail |-> 0, off |-> 0, stride |-> 0]

nbytes(f) == 8 * f.n + f.tail

FileSample(f, k) == SampleAt((f.off + k * f.stride) % NSamples)

\* np.memmap(filename, dtype=np.complex64) refuses a size that is not a
\* multiple of the 8-byte item size, and an empty file cannot be mapped.
memmap_ok(f) == nbytes(f) % 8 = 0 /\ nbytes(f) > 0

\* The flat array: item k of the file at index k.
memmap(f) == [k \in 1..(nbytes(f) \div 8) |-> FileSample(f, k - 1)]

\* ndarray.reshape(rows, cols) refuses a size other than rows*cols.
reshape_ok_truncating(size, rows, cols) == size >= rows * cols

reshape_ok(size, rows, cols) == size = rows * cols

\* The flat index of element (i, j), both from 0, in C (row-major) order.
FlatIndex_F(i, j, rows, cols) == j * rows + i

FlatIndex(i, j, rows, cols) == i * cols + j

reshape(a, rows, cols) ==
    [i \in 1..rows |-> [j \in 1..cols |-> a[FlatIndex(i - 1, j - 1, rows, cols) + 1]]]

\* np.abs of a complex sample: hypot(re, im); an infinite part gives inf even
\* beside a NaN.  A finite magnitude is held as its exact square.
np_abs(z) ==
    IF z.re.k = "inf" \/ z.im.k = "inf" THEN [k |-> "inf", sq |-> 0]
    ELSE IF z.re.k = "nan" \/ z.im.k = "nan" THEN [k |-> "nan", sq |-> 0]
    ELSE [k |-> "fin", sq |-> z.re.v * z.re.v + z.im.v * z.im.v]

Phase(a) == [nan |-> FALSE, a |-> a]
PhaseNaN == [nan |-> TRUE, a |-> 0]

\* atan2(y, x) of IEEE 754, in units of pi/8: an even a is the angle a*pi/8
\* exactly, an odd a an angle strictly between (a-1)*pi/8 and (a+1)*pi/8.
atan2(y, x) ==
    IF y.k = "nan" \/ x.k = "nan" THEN PhaseNaN
    ELSE IF y.k = "inf"
    THEN (IF x.k = "inf" THEN (IF x.s = 1 THEN Phase(2 * y.s) ELSE Phase(6 * y.s))
          ELSE Phase(4 * y.s))
    ELSE IF x.k = "inf"
    THEN (IF x.s = 1 THEN Phase(0) ELSE Phase(8 * y.s))
    ELSE IF y.v = 0
    THEN (IF x.s = 1 THEN Phase(0) ELSE Phase(8 * y.s))
    ELSE IF x.v = 0 THEN Phase(4 * y.s)
    ELSE IF x.s = 1
    THEN (IF y.v < x.v THEN Phase(y.s)
          ELSE IF y.v = x.v THEN Phase(2 * y.s) ELSE Phase(3 * y.s))
    ELSE (IF y.v > x.v THEN Phase(5 * y.s)
          ELSE IF y.v = x.v THEN Phase(6 * y.s) ELSE Phase(7 * y.s))

\* np.angle(z) = arctan2(z.imag, z.real)
np_angle_unwrapped(z) ==
    LET p == atan2(z.im, z.re)
    IN  IF ~p.nan /\ p.a < 0 THEN Phase(p.a + 16) ELSE p

np_angle(z) == atan2(z.im, z.re)

\* seg2 = granule_sub[0]; ds = np.memmap(seg2.split('/')[-1], dtype=np.complex64)
\* The file is opened by its base name in the working directory.
slc_memmap ==
    /\ cell = "slc"
    /\ pc_slc = "idle"
    /\ IF Len(granule_sub) < 2
       THEN /\ Raise("IndexError")
            /\ pc_slc' = "raised"
            /\ UNCHANGED <<ds, reads>>
       ELSE IF ~localfile.exists
       THEN /\ Raise("FileNotFoundError")
            /\ pc_slc' = "raised"
            /\ UNCHANGED <<ds, reads>>
       ELSE IF ~memmap_ok(localfile)
       THEN /\ Raise("ValueError")
            /\ pc_slc' = "raised"
            /\ UNCHANGED <<ds, reads>>
       ELSE /\ ds' = memmap(localfile)
            /\ reads' = Append(reads, Read(basename(granule_sub[1]), "memmap", "local"))
            /\ pc_slc' = "mapped"
            /\ UNCHANGED <<cell, exc>>
    /\ UNCHANGED <<requests, now, localfile, rows_s2, cols_s2, slc_seg2,
                   backscatter_seg2, phase_seg_2>>
    /\ UNCHANGED <<searchVars, credVars, granule_sub, fs_s3>>

\* slc_seg2 = ds.reshape(rows_s2, cols_s2); ds = None
slc_reshape ==
    /\ pc_slc = "mapped"
    /\ IF ~reshape_ok(Len(ds), rows_s2, cols_s2)
       THEN /\ Raise("ValueError")
            /\ pc_slc' = "raised"
            /\ UNCHANGED <<ds, slc_seg2>>
       ELSE /\ slc_seg2' = reshape(ds, rows_s2, cols_s2)
            /\ ds' = <<>>
            /\ pc_slc' = "reshaped"
            /\ UNCHANGED <<cell, exc>>
    /\ UNCHANGED <<requests, now, localfile, rows_s2, cols_s2,
                   backscatter_seg2, phase_seg_2>>
    /\ UNCHANGED <<searchVars, credVars, granule_sub, fs_s3, reads>>

\* backscatter_seg2 = np.abs(slc_seg2)
slc_abs ==
    /\ pc_slc = "reshaped"
    /\ backscatter_seg2' =
          [i \in 1..Len(slc_seg2) |->
              [j \in 1..Len(slc_seg2[i]) |-> np_abs(slc_seg2[i][j])]]
    /\ pc_slc' = "abs"
    /\ UNCHANGED <<localfile, rows_s2, cols_s2, ds, slc_seg2, phase_seg_2>>
    /\ UNCHANGED <<nbVars, searchVars, credVars, granule_sub, fs_s3, reads>>

\* phase_seg_2 = np.angle(slc_seg2)
slc_angle ==
    /\ pc_slc = "abs"
    /\ phase_seg_2' =
          [i \in 1..Len(slc_seg2) |->
              [j \in 1..Len(slc_seg2[i]) |-> np_angle(slc_seg2[i][j])]]
    /\ pc_slc' = "done"
    /\ cell' = "plot"
    /\ UNCHANGED <<exc, requests, now>>
    /\ UNCHANGED <<localfile, rows_s2, cols_s2, ds, slc_seg2, backscatter_seg2>>
    /\ UNCHANGED <<searchVars, credVars, granule_sub, fs_s3, reads>>

(***************************************************************************)
(* Specifications.                                                         *)
(***************************************************************************)
SearchIdle ==
    /\ pc_search = "idle"
    /\ r = NoResponse
    /\ lookup = NoResponse
    /\ concept_id = ""
    /\ page_num = 0
    /\ s3_arr = <<>>
    /\ answered = <<>>
    /\ granule_arr = <<>>

CredsIdle ==
    /\ pc_creds = "idle"
    /\ calls = 0
    /\ rc = NoCredResponse
    /\ s3credentials = NoBundle

SlcIdle ==
    /\ pc_slc = "idle"
    /\ ds = <<>>
    /\ slc_seg2 = <<>>
    /\ backscatter_seg2 = <<>>
    /\ phase_seg_2 = <<>>

\* A file of exactly rows*cols samples.
ExactFile(rows, cols) ==
    [exists |-> TRUE, n |-> rows * cols, tail |-> 0, off |-> 0, stride |-> 1]

\* The whole notebook, run from its first cell in a working directory that
\* holds no file of seg2's name, or one of the right or of a wrong size.
Init ==
    /\ cell = "search"
    /\ exc = ""
    /\ requests = <<>>
    /\ now \in Times
    /\ SearchIdle
    /\ granule_sub = <<>>
    /\ CredsIdle
    /\ fs_s3 = NoSession
    /\ reads = <<>>
    /\ rows_s2 = MaxRows
    /\ cols_s2 = MaxCols
    /\ localfile \in { NoFile, ExactFile(MaxRows, MaxCols),
                       [ExactFile(MaxRows, MaxCols) EXCEPT !.n = @ + 1] }
    /\ SlcIdle

Next ==
    \/ search_get_doi
    \/ doi_respond
    \/ search_parse_doi
    \/ search_post_page
    \/ page_respond
    \/ search_handle_page
    \/ notebook_filter
    \/ creds_get
    \/ creds_respond
    \/ creds_return
    \/ notebook_fs
    \/ notebook_ann
    \/ slc_memmap
    \/ slc_reshape
    \/ slc_abs
    \/ slc_angle

Spec == Init /\ [][Next]_vars

\* search_cmr alone.
InitSearch ==
    /\ cell = "search"
    /\ exc = ""
    /\ requests = <<>>
    /\ now = 2
    /\ SearchIdle
    /\ granule_sub = <<>>
    /\ CredsIdle
    /\ fs_s3 = NoSession
    /\ reads = <<>>
    /\ rows_s2 = MaxRows
    /\ cols_s2 = MaxCols
    /\ localfile = NoFile
    /\ SlcIdle

NextSearch ==
    \/ search_get_doi
    \/ doi_respond
    \/ search_parse_doi
    \/ search_post_page
    \/ page_respond
    \/ search_handle_page

SpecSearch == InitSearch /\ [][NextSearch]_vars

\* The program runs on: each of its own steps is taken when it can be.  No
\* fairness for the endpoint, whose answer the blocking call may await forever.
FairSearch ==
    /\ SpecSearch
    /\ WF_vars(search_get_doi)
    /\ WF_vars(search_parse_doi)
    /\ WF_vars(search_post_page)
    /\ WF_vars(search_handle_page)

\* get_s3credentials called directly, up to MaxCalls times.
InitCreds ==
    /\ cell = "harness"
    /\ exc = ""
    /\ requests = <<>>
    /\ now \in Times
    /\ SearchIdle
    /\ granule_sub = <<>>
    /\ CredsIdle
    /\ fs_s3 = NoSession
    /\ reads = <<>>
    /\ rows_s2 = MaxRows
    /\ cols_s2 = MaxCols
    /\ localfile = NoFile
    /\ SlcIdle

NextCreds ==
    \/ creds_get
    \/ creds_respond
    \/ creds_return

SpecCreds == InitCreds /\ [][NextCreds]_vars

\* The SLC cell alone, on any file and any dimensions within the bounds; of
\* the earlier cells it reads only granule_sub.
InitDecode ==
    /\ cell = "slc"
    /\ exc = ""
    /\ requests = <<>>
    /\ now = 2
    /\ SearchIdle
    /\ granule_sub = <<s3_wa, s3_wb, s3_wc>>
    /\ CredsIdle
    /\ fs_s3 = NoSession
    /\ reads = <<>>
    /\ rows_s2 \in 1..MaxRows
    /\ cols_s2 \in 1..MaxCols
    /\ localfile \in Files
    /\ SlcIdle

NextDecode ==
    \/ slc_memmap
    \/ slc_reshape
    \/ slc_abs
    \/ slc_angle

SpecDecode == InitDecode /\ [][NextDecode]_vars

(***************************************************************************)
(* Vocabulary of the properties.                                           *)
(***************************************************************************)
InSeq(x, seq) == \E i \in 1..Len(seq) : seq[i] = x

IsPrefix(a, b) == Len(a) <= Len(b) /\ SubSeq(b, 1, Len(a)) = a

RECURSIVE Flatten(_)
Flatten(seqs) == IF seqs = <<>> THEN <<>> ELSE Head(seqs) \o Flatten(Tail(seqs))

\* An href that starts with the five characters s3://
IsS3Locator(h) ==
    /\ Len(h) >= 5
    /\ h[1] = "s" /\ h[2] = "3" /\ h[3] = ":" /\ h[4] = "/" /\ h[5] = "/"

IsPost(q) == q.method = "POST"
PostRequests == SelectSeq(requests, IsPost)

IsCredGet(q) == q.method = "GET" /\ q.url = "s3credentials"
CredGets == SelectSeq(requests, IsCredGet)

ErrorStatus(resp) == resp.status >= 400
NonEmptyPage(resp) == ~ErrorStatus(resp) /\ resp.ok /\ resp.entry # <<>>
EmptyPage(resp) == ~ErrorStatus(resp) /\ resp.ok /\ resp.entry = <<>>
FailedPage(resp) == ErrorStatus(resp) \/ ~resp.ok

\* The page responses search_cmr has dealt with.
Handled == IF pc_search = "page_got" THEN Len(answered) - 1 ELSE Len(answered)

LookupHandled == pc_search \notin {"idle", "doi_wait", "doi_got"}

Terminated == pc_search \in {"returned", "raised"}

\* The s3:// links of the pages, in page, granule and link order.
S3LinksOf(pages) ==
    Flatten([i \in 1..Len(pages) |->
        Flatten([g \in 1..Len(pages[i].entry) |->
            SelectSeq(pages[i].entry[g], IsS3Locator)])])

(***************************************************************************)
(* Properties of search_cmr.                                               *)
(***************************************************************************)
\* C1: when the endpoint has answered N >= 0 non-empty pages and then an
\* empty page, search_cmr has returned, it issued exactly N+1 page requests
\* numbered 1..N+1 in that order, each with the looked-up concept id and the
\* page size 2000, and the list it returned is the s3:// links of the first
\* N pages in page, granule and link order.
C1_Pagination ==
    LET n == Len(answered) - 1
    IN  ( /\ Len(answered) >= 1
          /\ pc_search # "page_got"
          /\ \A i \in 1..n : NonEmptyPage(answered[i])
          /\ EmptyPage(answered[n + 1]) )
        => /\ pc_search = "returned"
           /\ Len(PostRequests) = n + 1
           /\ \A i \in 1..(n + 1) :
                 /\ PostRequests[i].page_num = i
                 /\ PostRequests[i].arg = lookup.entry[1]
                 /\ PostRequests[i].page_size = 2000
                 /\ PostRequests[i].url = "granules.json"
           /\ granule_arr = S3LinksOf(SubSeq(answered, 1, n))

\* Two non-empty pages, then the empty one: three requests, links of both pages.
C1_Witness ==
    /\ pc_search = "returned"
    /\ Len(PostRequests) = 3
    /\ answered[1].entry = <<g_three, g_two>>
    /\ answered[2].entry = <<g_two, g_three>>
    /\ granule_arr = <<s3_wa, s3_wb, s3_wc, s3_wb, s3_wc, s3_wa>>

\* C2: once search_cmr has returned, a link of a granule of a non-empty page
\* is in the returned list if and only if its href starts with s3://, and
\* the list holds nothing but such links.
C2_LinkFilter ==
    pc_search = "returned" =>
        /\ \A i \in 1..Len(answered) : \A g \in 1..Len(answered[i].entry) :
              \A l \in 1..Len(answered[i].entry[g]) :
                 LET h == answered[i].entry[g][l]
                 IN  InSeq(h, granule_arr) <=> IsS3Locator(h)
        /\ \A k \in 1..Len(granule_arr) :
              /\ IsS3Locator(granule_arr[k])
              /\ \E i \in 1..Len(answered) : \E g \in 1..Len(answered[i].entry) :
                    InSeq(granule_arr[k], answered[i].entry[g])

\* The granule with the links s3://, https://, ftp:// gives its s3:// link only.
C2_Witness ==
    /\ pc_search = "returned"
    /\ Len(answered) = 2
    /\ answered[1].entry = <<g_three>>
    /\ granule_arr = <<s3_wa>>

\* C9: a lookup that lists no collection, or is malformed, makes search_cmr
\* raise with no page request issued; a failed request for page k was issued
\* once, is the last request, and search_cmr raises without returning a
\* list, whatever links it had collected.
C9_AbortOnFailure ==
    /\ (LookupHandled /\ (~lookup.ok \/ lookup.entry = <<>>))
          => /\ pc_search = "raised"
             /\ cell = "error"
             /\ exc \in {"KeyError", "IndexError"}
             /\ PostRequests = <<>>
             /\ granule_arr = <<>>
    /\ \A k \in 1..Handled :
          FailedPage(answered[k])
          => /\ k = Len(answered)
             /\ pc_search = "raised"
             /\ cell = "error"
             /\ exc \in {"HTTPError", "KeyError"}
             /\ Cardinality({ i \in 1..Len(PostRequests) :
                                 PostRequests[i].page_num = k }) = 1
             /\ \A i \in 1..Len(PostRequests) : PostRequests[i].page_num <= k
             /\ granule_arr = <<>>

\* The second page request fails after the first page gave links.
C9_Witness ==
    /\ pc_search = "raised"
    /\ Len(answered) = 2
    /\ ErrorStatus(answered[2])
    /\ s3_arr # <<>>
    /\ granule_arr = <<>>
    /\ Len(PostRequests) = 2

\* C10: search_cmr ends only after an empty or failing page response (or a
\* failed lookup); a non-empty page always sends it round the loop again
\* with page_num one higher and the list extended, never shortened; the
\* count of page requests follows page_num; once an empty or failing
\* response is in, it ends; and round the loop the next request always goes
\* out, whatever page_num has grown to.
C10_Termination ==
    /\ [](Terminated =>
            IF answered = <<>>
            THEN ~lookup.ok \/ lookup.entry = <<>>
            ELSE ~NonEmptyPage(answered[Len(answered)]))
    /\ [][ (pc_search = "page_got" /\ NonEmptyPage(r))
           => (pc_search' = "loop" /\ page_num' = page_num + 1) ]_vars
    /\ [][ /\ page_num' \in {page_num, page_num + 1}
           /\ IsPrefix(s3_arr, s3_arr') ]_vars
    /\ [](pc_search = "loop" => page_num = Len(PostRequests) + 1)
    /\ [](pc_search \in {"page_wait", "page_got"} => page_num = Len(PostRequests))
    /\ ((pc_search = "page_got" /\ ~NonEmptyPage(r)) ~> Terminated)
    /\ ((pc_search = "loop") ~> (pc_search = "page_wait"))

\* After MaxPages non-empty pages the loop is about to ask for one more.
C10_Witness ==
    /\ pc_search = "loop"
    /\ page_num = MaxPages + 1
    /\ s3_arr # <<>>

\* C3: a request answered with an error status aborts the call, and the body
\* of that response is not used: the lookup, each page request, the
\* credential request.
C3_ErrorStatusAborts ==
    /\ (LookupHandled /\ ErrorStatus(lookup))
          => (pc_search = "raised" /\ concept_id = "")
    /\ \A k \in 1..Handled :
          ErrorStatus(answered[k]) => (pc_search = "raised" /\ k = Len(answered))
    /\ (pc_creds \in {"returned", "raised"} /\ ErrorStatus(rc))
          => pc_creds = "raised"

(***************************************************************************)
(* Properties of get_s3credentials.                                        *)
(***************************************************************************)
\* C4: every call issues one GET to the s3credentials endpoint of the
\* provider and no other request, so k calls make k GETs; the call returns
\* exactly when the status is no error, and then the bundle returned has the
\* four fields of the response unchanged, expired or not.
C4_CredentialFetch ==
    /\ Len(CredGets) = calls
    /\ Len(requests) = calls
    /\ \A i \in 1..Len(requests) : requests[i].arg \in DAACs
    /\ pc_creds \in {"returned", "raised"}
          => (pc_creds = "returned" <=> ~ErrorStatus(rc))
    /\ pc_creds = "returned"
          => /\ s3credentials.accessKeyId = rc.bundle.accessKeyId
             /\ s3credentials.secretAccessKey = rc.bundle.secretAccessKey
             /\ s3credentials.sessionToken = rc.bundle.sessionToken
             /\ s3credentials.expiration = rc.bundle.expiration

\* A second call made a second GET and returned a bundle that has expired.
C4_Witness ==
    /\ calls = 2
    /\ Len(CredGets) = 2
    /\ pc_creds = "returned"
    /\ s3credentials.accessKeyId = "A2"
    /\ s3credentials.expiration < now

(***************************************************************************)
(* Properties of the reads.                                                *)
(***************************************************************************)
\* C7: every read of granule bytes is made through the S3 session, on an
\* s3:// locator, after get_s3credentials has returned.
C7_ReadsThroughSession ==
    \A i \in 1..Len(reads) :
        /\ reads[i].via = "fs_s3"
        /\ IsS3Locator(reads[i].path)
        /\ fs_s3.open
        /\ pc_creds = "returned"

(***************************************************************************)
(* Properties of the raster decode.                                        *)
(***************************************************************************)
GridBytes == rows_s2 * cols_s2 * 8

IsGrid(a) == Len(a) = rows_s2 /\ \A i \in 1..Len(a) : Len(a[i]) = cols_s2

Positions == (1..rows_s2) \X (1..cols_s2)

\* C5: a file whose length is not divisible by rows*cols*8 never gets past
\* the reshape: the cell raises ValueError and no grid, magnitude or phase
\* is produced.
C5_DimensionMismatch ==
    (localfile.exists /\ nbytes(localfile) % GridBytes # 0)
    => /\ pc_slc \in {"idle", "mapped", "raised"}
       /\ pc_slc = "raised" => (exc = "ValueError" /\ cell = "error")
       /\ pc_slc = "mapped" => Len(ds) # rows_s2 * cols_s2
       /\ slc_seg2 = <<>>
       /\ backscatter_seg2 = <<>>
       /\ phase_seg_2 = <<>>

\* A file of whole samples, longer than the grid: raised.
C5_Witness ==
    /\ pc_slc = "raised"
    /\ exc = "ValueError"
    /\ localfile.tail = 0
    /\ nbytes(localfile) > GridBytes
    /\ nbytes(localfile) % GridBytes # 0

\* C6, as claimed: a file at least rows*cols*8 bytes long decodes to the grid
\* of its first rows*cols samples in row-major order, the rest ignored.
C6_TrailingIgnored ==
    (localfile.exists /\ nbytes(localfile) >= GridBytes
        /\ pc_slc \notin {"idle", "mapped"})
    => /\ pc_slc # "raised"
       /\ IsGrid(slc_seg2)
       /\ \A k \in 0..(rows_s2 * cols_s2 - 1) :
             slc_seg2[(k \div cols_s2) + 1][(k % cols_s2) + 1]
                 = FileSample(localfile, k)

\* C6, amended: a file of exactly rows*cols*8 bytes decodes to the rows x
\* cols grid with sample k at row k div cols, column k mod cols; a file of
\* any other length, a longer one included, makes the cell raise ValueError
\* with no grid produced.
C6_RowMajorExact ==
    /\ pc_slc \in {"reshaped", "abs", "done"}
          => /\ nbytes(localfile) = GridBytes
             /\ IsGrid(slc_seg2)
             /\ \A k \in 0..(rows_s2 * cols_s2 - 1) :
                   slc_seg2[(k \div cols_s2) + 1][(k % cols_s2) + 1]
                       = FileSample(localfile, k)
    /\ (nbytes(localfile) # GridBytes /\ pc_slc \notin {"idle", "mapped"})
          => /\ pc_slc = "raised"
             /\ exc = "ValueError"
             /\ slc_seg2 = <<>>
    /\ nbytes(localfile) = GridBytes => pc_slc # "raised"

\* A grid of two rows whose samples differ, decoded.
C6_Witness ==
    /\ pc_slc = "reshaped"
    /\ rows_s2 = 2
    /\ cols_s2 = MaxCols
    /\ slc_seg2[1][2] # slc_seg2[2][1]
    /\ slc_seg2[2][1] = FileSample(localfile, cols_s2)

\* C8, as claimed: every phase lies in (-pi, pi], every magnitude is >= 0,
\* and both grids have the raster's dimensions.
C8_PhaseMagnitudeRange ==
    pc_slc = "done" =>
        /\ IsGrid(backscatter_seg2)
        /\ IsGrid(phase_seg_2)
        /\ \A p \in Positions :
              /\ ~phase_seg_2[p[1]][p[2]].nan
              /\ phase_seg_2[p[1]][p[2]].a > -8
              /\ phase_seg_2[p[1]][p[2]].a <= 8
              /\ backscatter_seg2[p[1]][p[2]].k # "nan"
              /\ backscatter_seg2[p[1]][p[2]].sq >= 0

\* C8, amended: for every sample neither part of which is NaN the phase lies
\* in [-pi, pi], with -pi only for a negatively signed imaginary part that is
\* zero (or finite beside a real part of -inf) and a negatively signed real
\* part, and the magnitude is >= 0; both grids have the raster's dimensions,
\* and equal samples have equal magnitude and equal phase wherever they lie.
C8_PhaseMagnitudeNonNaN ==
    pc_slc = "done" =>
        /\ IsGrid(backscatter_seg2)
        /\ IsGrid(phase_seg_2)
        /\ \A p \in Positions :
              LET z  == slc_seg2[p[1]][p[2]]
                  ph == phase_seg_2[p[1]][p[2]]
                  m  == backscatter_seg2[p[1]][p[2]]
              IN  (z.re.k # "nan" /\ z.im.k # "nan")
                  => /\ ~ph.nan
                     /\ ph.a >= -8
                     /\ ph.a <= 8
                     /\ ph.a = -8 => /\ z.im.s = -1
                                     /\ z.re.s = -1
                                     /\ (z.im.v = 0 \/ z.re.k = "inf")
                     /\ m.k # "nan"
                     /\ m.sq >= 0
        /\ \A p, q \in Positions :
              slc_seg2[p[1]][p[2]] = slc_seg2[q[1]][q[2]]
              => /\ backscatter_seg2[p[1]][p[2]] = backscatter_seg2[q[1]][q[2]]
                 /\ phase_seg_2[p[1]][p[2]] = phase_seg_2[q[1]][q[2]]

\* The sample -1 - 0j, whose phase is -pi, in a decoded grid.
C8_Witness ==
    /\ pc_slc = "done"
    /\ rows_s2 = 2
    /\ slc_seg2[1][1] = [re |-> Fin(-1, 1), im |-> Fin(-1, 0)]
    /\ phase_seg_2[1][1] = Phase(-8)
    /\ backscatter_seg2[1][1] = [k |-> "fin", sq |-> 1]
    /\ slc_seg2[2][1] = slc_seg2[1][1]

====
